---------------------------- MODULE Spec2Model ----------------------------
(***************************************************************************)
(* Model of the ragie.ai gateway of src/main.py: the outbound call wrapper *)
(* get_api_response, the five FastAPI handlers built on it, and the        *)
(* knowledge-base aggregation of list_knowledge_bases_endpoint.            *)
(*                                                                         *)
(* Python str values are sequences of one-character strings, so that       *)
(* json.dumps (escaping included) and the JSON parse of a response body    *)
(* are computed character by character.  A Python/JSON value is a record   *)
(* [t, v]: t is "str", "obj" (a dict: the sequence of its <<key, value>>   *)
(* pairs in insertion order), "arr" (a list) or "none" (None).             *)
(* Record constructors list their fields in the order in which the field   *)
(* names first occur in this module.                                       *)
(***************************************************************************)
EXTENDS Integers, Sequences, FiniteSets, TLC

VARIABLES requests_version, pc, request, call, response, result, documents, outcome

vars == <<requests_version, pc, request, call, response, result, documents, outcome>>

----------------------------------------------------------------------------
(* Bounds *)

NumRequests == 2
MaxDocs == 2

Requests == 1..NumRequests

----------------------------------------------------------------------------
(* String literals of src/main.py *)

BASE_URL == <<"h", "t", "t", "p", "s", ":", "/", "/", "a", "p", "i", ".", "r", "a", "g", "i", "e", ".", "a", "i">>
PathDocuments == <<"/", "d", "o", "c", "u", "m", "e", "n", "t", "s">>
PathRetrievals == <<"/", "r", "e", "t", "r", "i", "e", "v", "a", "l", "s">>
K_organization_id == <<"o", "r", "g", "a", "n", "i", "z", "a", "t", "i", "o", "n", "_", "i", "d">>
K_knowledgeBase_id == <<"k", "n", "o", "w", "l", "e", "d", "g", "e", "B", "a", "s", "e", "_", "i", "d">>
K_kb_title == <<"k", "b", "_", "t", "i", "t", "l", "e">>
K_kb_creation_time == <<"k", "b", "_", "c", "r", "e", "a", "t", "i", "o", "n", "_", "t", "i", "m", "e">>
K_metadata == <<"m", "e", "t", "a", "d", "a", "t", "a">>
K_documents == <<"d", "o", "c", "u", "m", "e", "n", "t", "s">>
K_eq == <<"$", "e", "q">>
K_and == <<"$", "a", "n", "d">>
K_title == <<"t", "i", "t", "l", "e">>
K_creation_time == <<"c", "r", "e", "a", "t", "i", "o", "n", "_", "t", "i", "m", "e">>
UnknownTitle == <<"U", "n", "k", "n", "o", "w", "n", " ", "T", "i", "t", "l", "e">>
UnknownTime == <<"U", "n", "k", "n", "o", "w", "n", " ", "T", "i", "m", "e">>
K_filter == <<"f", "i", "l", "t", "e", "r">>
K_query == <<"q", "u", "e", "r", "y">>
K_mode == <<"m", "o", "d", "e">>
V_fast == <<"f", "a", "s", "t">>
K_external_id == <<"e", "x", "t", "e", "r", "n", "a", "l", "_", "i", "d">>
K_name == <<"n", "a", "m", "e">>
K_partition == <<"p", "a", "r", "t", "i", "t", "i", "o", "n">>
K_file == <<"f", "i", "l", "e">>

----------------------------------------------------------------------------
(* Python values *)

PyNone == [t |-> "none", v |-> <<>>]
PyStr(s) == [t |-> "str", v |-> s]
PyDict(pairs) == [t |-> "obj", v |-> pairs]
PyList(items) == [t |-> "arr", v |-> items]

IsDict(x) == x.t = "obj"
IsList(x) == x.t = "arr"

(* bool(x): None, "", {} and [] are falsy. *)
Truthy(x) == x.t # "none" /\ x.v # <<>>

DictHas(d, k) == \E i \in 1..Len(d.v) : d.v[i][1] = k

(* d.get(k, default) *)
DictGet(d, k, default) ==
    IF DictHas(d, k)
    THEN d.v[CHOOSE i \in 1..Len(d.v) : d.v[i][1] = k][2]
    ELSE default

(* d[k] = x: an existing key keeps its position, a new key goes last. *)
DictSet(d, k, x) ==
    IF DictHas(d, k)
    THEN PyDict([i \in 1..Len(d.v) |-> IF d.v[i][1] = k THEN <<k, x>> ELSE d.v[i]])
    ELSE PyDict(Append(d.v, <<k, x>>))

(* list(d.values()) *)
DictValues(d) == PyList([i \in 1..Len(d.v) |-> d.v[i][2]])

----------------------------------------------------------------------------
(* json.dumps with its default separators and escapes *)

EscapeChar(c) ==
    CASE c = "\"" -> <<"\\", "\"">>
      [] c = "\\" -> <<"\\", "\\">>
      [] c = "\n" -> <<"\\", "n">>
      [] c = "\t" -> <<"\\", "t">>
      [] OTHER -> <<c>>

RECURSIVE Escape(_)
Escape(s) == IF s = <<>> THEN <<>> ELSE EscapeChar(Head(s)) \o Escape(Tail(s))

DumpsStr(s) == <<"\"">> \o Escape(s) \o <<"\"">>

RECURSIVE JsonDumps(_)
RECURSIVE DumpsMembers(_)
RECURSIVE DumpsElements(_)
DumpsMembers(pairs) ==
    IF pairs = <<>> THEN <<>>
    ELSE DumpsStr(Head(pairs)[1]) \o <<":", " ">> \o JsonDumps(Head(pairs)[2])
         \o (IF Len(pairs) > 1 THEN <<",", " ">> ELSE <<>>)
         \o DumpsMembers(Tail(pairs))
DumpsElements(items) ==
    IF items = <<>> THEN <<>>
    ELSE JsonDumps(Head(items))
         \o (IF Len(items) > 1 THEN <<",", " ">> ELSE <<>>)
         \o DumpsElements(Tail(items))
JsonDumps(x) ==
    CASE x.t = "str" -> DumpsStr(x.v)
      [] x.t = "obj" -> <<"{">> \o DumpsMembers(x.v) \o <<"}">>
      [] x.t = "arr" -> <<"[">> \o DumpsElements(x.v) \o <<"]">>
      [] OTHER -> <<"n", "u", "l", "l">>

----------------------------------------------------------------------------
(* The JSON parse behind response.json(), for strings, objects, arrays and *)
(* null.                                                                   *)

Whitespace == {" ", "\n", "\t", "\r"}

ParseFail == [ok |-> FALSE, val |-> PyNone, pos |-> 0]
ParseOk(x, i) == [ok |-> TRUE, val |-> x, pos |-> i]

RECURSIVE SkipWs(_, _)
SkipWs(s, i) == IF i <= Len(s) /\ s[i] \in Whitespace THEN SkipWs(s, i + 1) ELSE i

Unescape(c) ==
    CASE c = "n" -> "\n"
      [] c = "t" -> "\t"
      [] c = "r" -> "\r"
      [] OTHER -> c

RECURSIVE ParseString(_, _, _)
ParseString(s, i, acc) ==
    IF i > Len(s) THEN ParseFail
    ELSE IF s[i] = "\"" THEN ParseOk(PyStr(acc), i + 1)
    ELSE IF s[i] = "\\"
         THEN IF i + 1 <= Len(s) /\ s[i + 1] \in {"\"", "\\", "/", "n", "t", "r"}
              THEN ParseString(s, i + 2, Append(acc, Unescape(s[i + 1])))
              ELSE ParseFail
    ELSE IF s[i] \in {"\n", "\t", "\r"} THEN ParseFail
    ELSE ParseString(s, i + 1, Append(acc, s[i]))

RECURSIVE ParseValue(_, _)
RECURSIVE ParseMembers(_, _, _)
RECURSIVE ParseElements(_, _, _)
ParseMembers(s, i, acc) ==
    IF i > Len(s) \/ s[i] # "\"" THEN ParseFail
    ELSE LET k == ParseString(s, i + 1, <<>>)
             c == SkipWs(s, k.pos)
         IN IF ~k.ok \/ c > Len(s) \/ s[c] # ":" THEN ParseFail
            ELSE LET x == ParseValue(s, SkipWs(s, c + 1))
                     e == SkipWs(s, x.pos)
                     d == DictSet(acc, k.val.v, x.val)
                 IN IF ~x.ok \/ e > Len(s) THEN ParseFail
                    ELSE IF s[e] = "}" THEN ParseOk(d, e + 1)
                    ELSE IF s[e] = "," THEN ParseMembers(s, SkipWs(s, e + 1), d)
                    ELSE ParseFail
ParseElements(s, i, acc) ==
    LET x == ParseValue(s, i)
        e == SkipWs(s, x.pos)
        l == PyList(Append(acc.v, x.val))
    IN IF ~x.ok \/ e > Len(s) THEN ParseFail
       ELSE IF s[e] = "]" THEN ParseOk(l, e + 1)
       ELSE IF s[e] = "," THEN ParseElements(s, SkipWs(s, e + 1), l)
       ELSE ParseFail
ParseValue(s, i) ==
    IF i > Len(s) THEN ParseFail
    ELSE IF s[i] = "\"" THEN ParseString(s, i + 1, <<>>)
    ELSE IF s[i] = "{"
         THEN LET j == SkipWs(s, i + 1)
              IN IF j <= Len(s) /\ s[j] = "}" THEN ParseOk(PyDict(<<>>), j + 1)
                 ELSE ParseMembers(s, j, PyDict(<<>>))
    ELSE IF s[i] = "["
         THEN LET j == SkipWs(s, i + 1)
              IN IF j <= Len(s) /\ s[j] = "]" THEN ParseOk(PyList(<<>>), j + 1)
                 ELSE ParseElements(s, j, PyList(<<>>))
    ELSE IF i + 3 <= Len(s) /\ SubSeq(s, i, i + 3) = <<"n", "u", "l", "l">>
         THEN ParseOk(PyNone, i + 4)
    ELSE ParseFail

JsonLoads(s) ==
    LET x == ParseValue(s, SkipWs(s, 1))
    IN IF x.ok /\ SkipWs(s, x.pos) = Len(s) + 1 THEN ParseOk(x.val, x.pos) ELSE ParseFail

(* str.strip() *)
RECURSIVE Strip(_)
Strip(s) ==
    IF s = <<>> THEN s
    ELSE IF Head(s) \in Whitespace THEN Strip(Tail(s))
    ELSE IF s[Len(s)] \in Whitespace THEN Strip(SubSeq(s, 1, Len(s) - 1))
    ELSE s

----------------------------------------------------------------------------
(* The requests library and the upstream service *)

ClientError == <<" ", "C", "l", "i", "e", "n", "t", " ", "E", "r", "r", "o", "r", ":", " ">>
ServerError == <<" ", "S", "e", "r", "v", "e", "r", " ", "E", "r", "r", "o", "r", ":", " ">>
ForUrl == <<" ", "f", "o", "r", " ", "u", "r", "l", ":", " ">>
ConnectionErrorText == <<"C", "o", "n", "n", "e", "c", "t", "i", "o", "n", " ", "r", "e", "f", "u", "s", "e", "d">>
TooManyRedirectsText == <<"E", "x", "c", "e", "e", "d", "e", "d", " ", "3", "0", " ", "r", "e", "d", "i", "r", "e", "c", "t", "s", ".">>
JSONDecodeErrorText == <<"E", "x", "p", "e", "c", "t", "i", "n", "g", " ", "v", "a", "l", "u", "e", ":", " ", "l", "i", "n", "e", " ", "1", " ", "c", "o", "l", "u", "m", "n", " ", "1", " ", "(", "c", "h", "a", "r", " ", "0", ")">>

(* What requests.get/post/delete produces: a Response that is returned, or *)
(* a RequestException that is raised (ConnectionError and Timeout carry no *)
(* response; TooManyRedirects carries the last 3xx response).              *)
Response(status_code, text) == [status_code |-> status_code, text |-> text, kind |-> "response"]
NoResponse == [status_code |-> 0, text |-> <<>>, kind |-> "none"]
ConnectionError == [status_code |-> 0, text |-> <<>>, kind |-> "ConnectionError"]
TooManyRedirects == [status_code |-> 302, text |-> <<>>, kind |-> "TooManyRedirects"]

(* Response.ok, which is also Response.__bool__ *)
ResponseOk(resp) == ~(400 <= resp.status_code /\ resp.status_code < 600)

Digits == <<"0", "1", "2", "3", "4", "5", "6", "7", "8", "9">>

RECURSIVE IntStr(_)
IntStr(n) == IF n < 10 THEN <<Digits[n + 1]>> ELSE IntStr(n \div 10) \o <<Digits[(n % 10) + 1]>>

(* An exception object: its class, its response attribute (NoResponse for  *)
(* None) and str(e).                                                       *)
Exception(type, resp, text) == [response |-> resp, type |-> type, str |-> text]

(* The HTTPError of Response.raise_for_status() *)
HTTPError(url, resp) ==
    Exception("HTTPError", resp,
              IntStr(resp.status_code)
              \o (IF resp.status_code < 500 THEN ClientError ELSE ServerError)
              \o ForUrl \o url)

----------------------------------------------------------------------------
(* Outcomes of a call: a returned value or a raised exception *)

NoDetail == [prefix |-> "", error_detail |-> [v |-> PyNone, src |-> "none"]]
Pending == [status_code |-> 0, kind |-> "pending", value |-> PyNone, detail |-> NoDetail]
Return(x) == [status_code |-> 0, kind |-> "return", value |-> x, detail |-> NoDetail]
Raise(type) == [status_code |-> 0, kind |-> type, value |-> PyNone, detail |-> NoDetail]

(* HTTPException(status_code, detail=f"Error from Ragie API: {error_detail}"); *)
(* error_detail keeps where it was taken from and the value formatted.     *)
HTTPException(status_code, error_detail) ==
    [status_code |-> status_code, kind |-> "HTTPException", value |-> PyNone,
     detail |-> [prefix |-> "Error from Ragie API: ", error_detail |-> error_detail]]

----------------------------------------------------------------------------
(* get_api_response *)

MethodUpper(method) ==
    CASE method = "get" -> "GET"
      [] method = "post" -> "POST"
      [] method = "delete" -> "DELETE"
      [] OTHER -> method

SupportedMethod(method) == MethodUpper(method) \in {"GET", "POST", "DELETE"}

(* The request put on the wire for a supported method. *)
HttpRequest(url, params, method, payload, file) ==
    LET base == [url |-> url, params |-> PyNone, verb |-> MethodUpper(method),
                 accept |-> "application/json", authorization |-> "Bearer",
                 content_type |-> "application/json",
                 json |-> PyNone, data |-> PyNone, files |-> PyNone]
    IN CASE MethodUpper(method) = "GET" -> [base EXCEPT !.params = params]
         [] MethodUpper(method) = "POST" ->
              IF Truthy(file)
              THEN [base EXCEPT !.content_type = "", !.data = payload, !.files = file]
              ELSE [base EXCEPT !.json = payload]
         [] OTHER -> base

(* hasattr(e, 'response'): RequestException.__init__ always sets it. *)
HasResponseAttr(e) == TRUE

(* The except clause. *)
ExceptRequestException(e) ==
    LET error_detail ==
            IF HasResponseAttr(e) /\ e.response.kind # "none" /\ ResponseOk(e.response)
            THEN LET parsed == JsonLoads(e.response.text)
                 IN IF parsed.ok
                    THEN [v |-> parsed.val, src |-> "response.json()"]
                    ELSE [v |-> PyStr(e.response.text), src |-> "response.text"]
            ELSE [v |-> PyStr(e.str), src |-> "str(e)"]
    IN IF HasResponseAttr(e)
       THEN IF e.response.kind = "none"
            THEN Raise("AttributeError")
            ELSE HTTPException(e.response.status_code, error_detail)
       ELSE HTTPException(500, error_detail)

(* not response.text.strip() *)
BodyIsBlankNoStrip(text) == text = <<>>

BodyIsBlank(text) == Strip(text) = <<>>

(* Everything after the requests call.  version chooses what               *)
(* response.json() raises on a body that is not JSON: from requests 2.27   *)
(* on a RequestException (caught by the except clause), before that a      *)
(* plain ValueError.                                                       *)
GetApiResponse(url, reply, version) ==
    IF reply.kind # "response"
    THEN ExceptRequestException(
             Exception(reply.kind,
                       IF reply.kind = "TooManyRedirects"
                       THEN Response(reply.status_code, reply.text) ELSE NoResponse,
                       IF reply.kind = "TooManyRedirects"
                       THEN TooManyRedirectsText ELSE ConnectionErrorText))
    ELSE IF ~ResponseOk(reply)
    THEN ExceptRequestException(HTTPError(url, reply))
    ELSE IF ~BodyIsBlank(reply.text)
    THEN LET parsed == JsonLoads(reply.text)
         IN IF parsed.ok THEN Return(parsed.val)
            ELSE IF version = "2.27+"
            THEN ExceptRequestException(
                     Exception("JSONDecodeError", NoResponse, JSONDecodeErrorText))
            ELSE Raise("ValueError")
    ELSE Return(PyDict(<<>>))

----------------------------------------------------------------------------
(* The handlers *)

NoRequest == [op |-> "none"]

(* ingest_document_endpoint: if external_id / if name / if partition *)
IngestFieldGivenAlways(field) == TRUE

IngestFieldGiven(field) == Truthy(field)

(* ingest_document_endpoint: the form data *)
IngestData(organization_id, knowledgeBase_id, external_id, name, partition) ==
    LET metadata_dict == PyDict(<< <<K_organization_id, organization_id>>,
                                   <<K_knowledgeBase_id, knowledgeBase_id>> >>)
        data0 == PyDict(<< <<K_mode, PyStr(V_fast)>>,
                           <<K_metadata, PyStr(JsonDumps(metadata_dict))>> >>)
        data1 == IF IngestFieldGiven(external_id) THEN DictSet(data0, K_external_id, external_id) ELSE data0
        data2 == IF IngestFieldGiven(name) THEN DictSet(data1, K_name, name) ELSE data1
    IN IF IngestFieldGiven(partition) THEN DictSet(data2, K_partition, partition) ELSE data2

IngestFiles(file) ==
    PyDict(<< <<K_file, PyList(<<file.filename, file.file, file.content_type>>)>> >>)

DeleteUrl(document_id) == BASE_URL \o PathDocuments \o <<"/">> \o document_id.v

QueryPayload(knowledgeBase_id, query) ==
    PyDict(<< <<K_filter, PyDict(<< <<K_knowledgeBase_id, knowledgeBase_id>> >>)>>,
              <<K_query, query>> >>)

(* list_documents_endpoint: if kb_id_str *)
KbIdGivenNotNone(kb_id_str) == kb_id_str.t # "none"

KbIdGiven(kb_id_str) == Truthy(kb_id_str)

(* list_documents_endpoint: the metadata filter *)
ListDocumentsFilter(organization_id, knowledgeBase_id) ==
    LET org_id_str == organization_id
        kb_id_str == knowledgeBase_id
    IN IF KbIdGiven(kb_id_str)
       THEN PyDict(<< <<K_and, PyList(<<
                PyDict(<< <<K_organization_id, PyDict(<< <<K_eq, org_id_str>> >>)>> >>),
                PyDict(<< <<K_knowledgeBase_id, PyDict(<< <<K_eq, kb_id_str>> >>)>> >>) >>)>> >>)
       ELSE PyDict(<< <<K_organization_id, PyDict(<< <<K_eq, org_id_str>> >>)>> >>)

ListDocumentsParams(organization_id, knowledgeBase_id) ==
    PyDict(<< <<K_filter, PyStr(JsonDumps(ListDocumentsFilter(organization_id, knowledgeBase_id)))>> >>)

(* list_documents_endpoint: documents = response.get("documents", []) if response else [] *)
ListDocumentsDocuments(resp) ==
    IF Truthy(resp)
    THEN IF IsDict(resp) THEN Return(DictGet(resp, K_documents, PyList(<<>>)))
         ELSE Raise("AttributeError")
    ELSE Return(PyList(<<>>))

(* list_knowledge_bases_endpoint: its own filter, params and extraction *)
KbFilter(organization_id) ==
    LET org_id_str == organization_id
    IN PyDict(<< <<K_organization_id, PyDict(<< <<K_eq, org_id_str>> >>)>> >>)

KbParams(organization_id) ==
    PyDict(<< <<K_filter, PyStr(JsonDumps(KbFilter(organization_id)))>> >>)

KbDocumentsSubscript(resp) ==
    IF Truthy(resp)
    THEN IF IsDict(resp)
         THEN IF DictHas(resp, K_documents) THEN Return(DictGet(resp, K_documents, PyNone))
              ELSE Raise("KeyError")
         ELSE Raise("TypeError")
    ELSE Return(PyList(<<>>))

KbDocuments(resp) ==
    IF Truthy(resp)
    THEN IF IsDict(resp) THEN Return(DictGet(resp, K_documents, PyList(<<>>)))
         ELSE Raise("AttributeError")
    ELSE Return(PyList(<<>>))

(* for doc in documents: the items a Python value iterates over *)
Iterate(x) ==
    CASE x.t = "arr" -> x.v
      [] x.t = "obj" -> [i \in 1..Len(x.v) |-> PyStr(x.v[i][1])]
      [] OTHER -> [i \in 1..Len(x.v) |-> PyStr(<<x.v[i]>>)]

(* if kb_id *)
KbIdPresentAlways(kb_id) == TRUE

KbIdPresent(kb_id) == Truthy(kb_id)

(* if kb_id not in kb_dict *)
KbIsNewAlways(kb_dict, kb_id) == TRUE

KbIsNew(kb_dict, kb_id) == ~DictHas(kb_dict, kb_id)

(* One iteration of the grouping loop. *)
KbLoopBody(kb_dict, doc) ==
    IF ~IsDict(doc) THEN Raise("AttributeError")
    ELSE LET metadata == DictGet(doc, K_metadata, PyDict(<<>>))
         IN IF ~IsDict(metadata) THEN Raise("AttributeError")
            ELSE LET kb_id == DictGet(metadata, K_knowledgeBase_id, PyNone)
                 IN IF KbIdPresent(kb_id)
                    THEN IF IsDict(kb_id) \/ IsList(kb_id) THEN Raise("TypeError")
                         ELSE IF KbIsNew(kb_dict, kb_id)
                         THEN Return(DictSet(kb_dict, kb_id, PyDict(<<
                                <<K_knowledgeBase_id, kb_id>>,
                                <<K_title, DictGet(metadata, K_kb_title, PyStr(UnknownTitle))>>,
                                <<K_creation_time, DictGet(metadata, K_kb_creation_time, PyStr(UnknownTime))>> >>)))
                         ELSE Return(kb_dict)
                    ELSE Return(kb_dict)

RECURSIVE KbLoop(_, _)
KbLoop(items, kb_dict) ==
    IF items = <<>> THEN Return(DictValues(kb_dict))
    ELSE LET step == KbLoopBody(kb_dict, Head(items))
         IN IF step.kind = "return" THEN KbLoop(Tail(items), step.value) ELSE step

(* list_knowledge_bases_endpoint after the extraction of documents *)
KnowledgeBases(docs) ==
    IF docs.t = "none" THEN Raise("TypeError") ELSE KbLoop(Iterate(docs), PyDict(<<>>))

(* The local variable documents of the two listing handlers. *)
HandlerDocuments(op, res) ==
    IF res.kind # "return" THEN Pending
    ELSE IF op = "list_documents" THEN ListDocumentsDocuments(res.value)
    ELSE IF op = "list_knowledge_bases" THEN KbDocuments(res.value)
    ELSE Pending

(* What the handler returns or raises once get_api_response has ended. *)
HandlerOutcome(op, res, docs) ==
    IF res.kind # "return" THEN res
    ELSE IF op = "list_documents" THEN docs
    ELSE IF op = "list_knowledge_bases"
         THEN IF docs.kind = "return" THEN KnowledgeBases(docs.value) ELSE docs
    ELSE res

----------------------------------------------------------------------------
(* Actions *)

(* The arguments a handler passes to get_api_response. *)
Args(url, params, method, payload, file) ==
    [url |-> url, method |-> method, params |-> params, payload |-> payload, file |-> file]

IngestArgs(organization_id, knowledgeBase_id, external_id, name, partition, file) ==
    Args(BASE_URL \o PathDocuments, PyNone, "POST",
         IngestData(organization_id, knowledgeBase_id, external_id, name, partition),
         IngestFiles(file))

DeleteArgs(document_id) == Args(DeleteUrl(document_id), PyNone, "DELETE", PyNone, PyNone)

QueryArgs(knowledgeBase_id, query) ==
    Args(BASE_URL \o PathRetrievals, PyNone, "POST", QueryPayload(knowledgeBase_id, query), PyNone)

ListDocumentsArgs(organization_id, knowledgeBase_id) ==
    Args(BASE_URL \o PathDocuments, ListDocumentsParams(organization_id, knowledgeBase_id),
         "GET", PyNone, PyNone)

KbArgs(organization_id) ==
    Args(BASE_URL \o PathDocuments, KbParams(organization_id), "GET", PyNone, PyNone)

(* The handler of request r runs up to the blocking requests call of       *)
(* get_api_response.                                                       *)
CallApi(r, req, args) ==
    /\ pc[r] = "idle"
    /\ request' = [request EXCEPT ![r] = req]
    /\ IF SupportedMethod(args.method)
       THEN /\ call' = [call EXCEPT ![r] =
                           <<HttpRequest(args.url, args.params, args.method, args.payload, args.file)>>]
            /\ pc' = [pc EXCEPT ![r] = "waiting"]
            /\ UNCHANGED <<result, outcome>>
       ELSE /\ pc' = [pc EXCEPT ![r] = "done"]
            /\ result' = [result EXCEPT ![r] = Raise("ValueError")]
            /\ outcome' = [outcome EXCEPT ![r] = Raise("ValueError")]
            /\ UNCHANGED call
    /\ UNCHANGED <<requests_version, response, documents>>

ingest_document_endpoint(r, organization_id, knowledgeBase_id, external_id, name, partition, file) ==
    CallApi(r, [file |-> file, op |-> "ingest", organization_id |-> organization_id,
                knowledgeBase_id |-> knowledgeBase_id, external_id |-> external_id,
                name |-> name, partition |-> partition],
            IngestArgs(organization_id, knowledgeBase_id, external_id, name, partition, file))

delete_document_endpoint(r, document_id) ==
    CallApi(r, [op |-> "delete", document_id |-> document_id], DeleteArgs(document_id))

query_knowledge_base_endpoint(r, knowledgeBase_id, query) ==
    CallApi(r, [op |-> "query", knowledgeBase_id |-> knowledgeBase_id, query |-> query],
            QueryArgs(knowledgeBase_id, query))

list_documents_endpoint(r, organization_id, knowledgeBase_id) ==
    CallApi(r, [op |-> "list_documents", organization_id |-> organization_id,
                knowledgeBase_id |-> knowledgeBase_id],
            ListDocumentsArgs(organization_id, knowledgeBase_id))

list_knowledge_bases_endpoint(r, organization_id) ==
    CallApi(r, [op |-> "list_knowledge_bases", organization_id |-> organization_id],
            KbArgs(organization_id))

(* As UpstreamReply, with a failed call issued once more. *)
UpstreamReplyRetry(r, reply) ==
    /\ pc[r] = "waiting"
    /\ LET res == GetApiResponse(call[r][Len(call[r])].url, reply, requests_version)
           docs == HandlerDocuments(request[r].op, res)
       IN IF res.kind # "return" /\ Len(call[r]) < 2
          THEN /\ call' = [call EXCEPT ![r] = Append(call[r], call[r][1])]
               /\ UNCHANGED <<pc, response, result, documents, outcome>>
          ELSE /\ response' = [response EXCEPT ![r] = reply]
               /\ result' = [result EXCEPT ![r] = res]
               /\ documents' = [documents EXCEPT ![r] = docs]
               /\ outcome' = [outcome EXCEPT ![r] = HandlerOutcome(request[r].op, res, docs)]
               /\ pc' = [pc EXCEPT ![r] = "done"]
               /\ UNCHANGED call
    /\ UNCHANGED <<requests_version, request>>

(* As UpstreamReply, with response a module-level variable of all handlers. *)
UpstreamReplyGlobal(r, reply) ==
    /\ pc[r] = "waiting"
    /\ LET res == GetApiResponse(call[r][Len(call[r])].url, reply, requests_version)
           docs == HandlerDocuments(request[r].op, res)
       IN /\ response' = [q \in Requests |-> reply]
          /\ result' = [result EXCEPT ![r] = res]
          /\ documents' = [documents EXCEPT ![r] = docs]
          /\ outcome' = [outcome EXCEPT ![r] = HandlerOutcome(request[r].op, res, docs)]
    /\ pc' = [pc EXCEPT ![r] = "done"]
    /\ UNCHANGED <<requests_version, request, call>>

(* The requests call of request r ends with reply; get_api_response and    *)
(* the handler run to their end.                                           *)
UpstreamReply(r, reply) ==
    /\ pc[r] = "waiting"
    /\ LET res == GetApiResponse(call[r][Len(call[r])].url, reply, requests_version)
           docs == HandlerDocuments(request[r].op, res)
       IN /\ response' = [response EXCEPT ![r] = reply]
          /\ result' = [result EXCEPT ![r] = res]
          /\ documents' = [documents EXCEPT ![r] = docs]
          /\ outcome' = [outcome EXCEPT ![r] = HandlerOutcome(request[r].op, res, docs)]
    /\ pc' = [pc EXCEPT ![r] = "done"]
    /\ UNCHANGED <<requests_version, request, call>>

(* The framework sends the outcome to the client; the locals are dropped. *)
SendResponse(r) ==
    /\ pc[r] = "done"
    /\ pc' = [pc EXCEPT ![r] = "idle"]
    /\ request' = [request EXCEPT ![r] = NoRequest]
    /\ call' = [call EXCEPT ![r] = <<>>]
    /\ response' = [response EXCEPT ![r] = NoResponse]
    /\ result' = [result EXCEPT ![r] = Pending]
    /\ documents' = [documents EXCEPT ![r] = Pending]
    /\ outcome' = [outcome EXCEPT ![r] = Pending]
    /\ UNCHANGED requests_version

----------------------------------------------------------------------------
(* Inputs and upstream replies *)

K_detail == <<"d", "e", "t", "a", "i", "l">>
NotFound == <<"N", "o", "t", " ", "f", "o", "u", "n", "d">>
Html == <<"<", "h", "t", "m", "l", ">">>
K_id == <<"i", "d">>
FileName == <<"a", ".", "p", "d", "f">>
FileContentType == <<"a", "p", "p", "l", "i", "c", "a", "t", "i", "o", "n", "/", "p", "d", "f">>
FileBytes == <<"%", "P", "D", "F">>
QueryText == <<"W", "h", "a", "t", " ", "i", "s", " ", "l", "u", "n", "g", " ", "c", "a", "n", "c", "e", "r", "?">>

OrgIds == {PyStr(<<"4", "2">>), PyStr(<<"o", "\"", "\\">>)}
KbIds == {PyStr(<<"k", "b", "1">>), PyStr(<<"k", "\"", "\n">>)}
OptionalKbIds == KbIds \cup {PyNone, PyStr(<<>>)}
OptionalFields == {PyStr(<<>>), PyStr(<<"x">>)}
DocumentIds == {PyStr(<<"d", "1">>), PyStr(<<"d", "2">>)}
Queries == {PyStr(QueryText)}
Uploads == {[file |-> PyStr(FileBytes), content_type |-> PyStr(FileContentType), filename |-> PyStr(FileName)]}
RequestsVersions == {"2.27+", "older"}

Statuses == {200, 204, 404, 500}

Metadata(pairs) == PyDict(<< <<K_metadata, PyDict(pairs)>> >>)

(* Documents as the upstream lists them. *)
DocSet ==
    { PyDict(<< <<K_id, PyStr(<<"d", "1">>)>> >>),
      Metadata(<< <<K_organization_id, PyStr(<<"4", "2">>)>> >>),
      Metadata(<< <<K_knowledgeBase_id, PyStr(<<"k", "b", "1">>)>>, <<K_kb_title, PyStr(<<"T", "1">>)>> >>),
      Metadata(<< <<K_knowledgeBase_id, PyStr(<<"k", "b", "1">>)>>, <<K_kb_title, PyStr(<<"T", "2">>)>>,
                  <<K_kb_creation_time, PyStr(<<"2", "0", "2", "5">>)>> >>),
      Metadata(<< <<K_knowledgeBase_id, PyStr(<<"k", "\"", "\n">>)>> >>),
      Metadata(<< <<K_knowledgeBase_id, PyStr(<<>>)>>, <<K_kb_title, PyStr(<<"T", "3">>)>> >>) }

DocLists == UNION {[1..n -> DocSet] : n \in 0..MaxDocs}

Bodies ==
    { <<>>, <<" ", "\n">>, <<"{", "}">>, Html,
      JsonDumps(PyDict(<< <<K_detail, PyStr(NotFound)>> >>)),
      JsonDumps(PyDict(<< <<K_id, PyStr(<<"d", "1">>)>> >>)) }

ListBodies == {JsonDumps(PyDict(<< <<K_documents, PyList(l)>> >>)) : l \in DocLists}

(* The replies the upstream can give to the request in flight: any status  *)
(* with any of Bodies, a transport failure, and a document listing to a    *)
(* GET.                                                                    *)
Replies(calls) ==
    IF calls = <<>> THEN {}
    ELSE {Response(s, b) : s \in Statuses, b \in Bodies}
         \cup {ConnectionError, TooManyRedirects}
         \cup (IF calls[Len(calls)].verb = "GET" THEN {Response(200, b) : b \in ListBodies} ELSE {})

ConcurrentReplies(calls) ==
    IF calls = <<>> THEN {} ELSE
    { Response(200, <<>>), ConnectionError,
      Response(404, JsonDumps(PyDict(<< <<K_detail, PyStr(NotFound)>> >>))),
      Response(200, JsonDumps(PyDict(<< <<K_documents, PyList(<<
          Metadata(<< <<K_knowledgeBase_id, PyStr(<<"k", "b", "1">>)>> >>) >>)>> >>))) }

----------------------------------------------------------------------------
(* Specifications *)

Init ==
    /\ requests_version \in RequestsVersions
    /\ pc = [r \in Requests |-> "idle"]
    /\ request = [r \in Requests |-> NoRequest]
    /\ call = [r \in Requests |-> <<>>]
    /\ response = [r \in Requests |-> NoResponse]
    /\ result = [r \in Requests |-> Pending]
    /\ documents = [r \in Requests |-> Pending]
    /\ outcome = [r \in Requests |-> Pending]

(* Concurrently handled requests. *)
Next ==
    \E r \in Requests :
        \/ \E f \in Uploads : ingest_document_endpoint(r, PyStr(<<"4", "2">>), PyStr(<<"k", "b", "1">>),
                                                       PyStr(<<>>), PyStr(<<"x">>), PyStr(<<>>), f)
        \/ delete_document_endpoint(r, PyStr(<<"d", "1">>))
        \/ \E q \in Queries : query_knowledge_base_endpoint(r, PyStr(<<"k", "b", "1">>), q)
        \/ \E kb \in {PyNone, PyStr(<<"k", "b", "1">>)} : list_documents_endpoint(r, PyStr(<<"4", "2">>), kb)
        \/ list_knowledge_bases_endpoint(r, PyStr(<<"4", "2">>))
        \/ \E reply \in ConcurrentReplies(call[r]) : UpstreamReply(r, reply)
        \/ SendResponse(r)

Spec == Init /\ [][Next]_vars

(* One request at a time, over the full input and reply sets. *)
NextSingle ==
    \/ \E org \in OrgIds, kb \in KbIds, e \in OptionalFields, n \in OptionalFields,
          p \in OptionalFields, f \in Uploads :
           ingest_document_endpoint(1, org, kb, e, n, p, f)
    \/ \E d \in DocumentIds : delete_document_endpoint(1, d)
    \/ \E kb \in KbIds, q \in Queries : query_knowledge_base_endpoint(1, kb, q)
    \/ \E org \in OrgIds, kb \in OptionalKbIds : list_documents_endpoint(1, org, kb)
    \/ \E org \in OrgIds : list_knowledge_bases_endpoint(1, org)
    \/ \E reply \in Replies(call[1]) : UpstreamReply(1, reply)
    \/ SendResponse(1)

SpecSingle == Init /\ [][NextSingle]_vars


----------------------------------------------------------------------------
(* Vocabulary of the properties *)

Done(r) == pc[r] = "done"
InFlight(r) == pc[r] \in {"waiting", "done"}
Is2xx(resp) == resp.kind = "response" /\ 200 <= resp.status_code /\ resp.status_code <= 299
CallFailed(resp) == resp.kind \notin {"none", "response"} \/ resp.status_code >= 400
IsBlank(text) == \A i \in 1..Len(text) : text[i] \in Whitespace

DocMetadata(doc) == DictGet(doc, K_metadata, PyDict(<<>>))
CarriesKbId(doc) == DictHas(DocMetadata(doc), K_knowledgeBase_id)
DocKbId(doc) == DictGet(DocMetadata(doc), K_knowledgeBase_id, PyNone)
ObservedKbIds(docs) == {DocKbId(docs[i]) : i \in {j \in 1..Len(docs) : CarriesKbId(docs[j])}}
FirstCarrier(docs, id) ==
    CHOOSE i \in 1..Len(docs) :
        /\ CarriesKbId(docs[i]) /\ DocKbId(docs[i]) = id
        /\ \A j \in 1..(i - 1) : ~(CarriesKbId(docs[j]) /\ DocKbId(docs[j]) = id)
SummaryId(summary) == DictGet(summary, K_knowledgeBase_id, PyNone)

(* sums holds exactly one summary per id of ids, each built from the first *)
(* document carrying its id, in the order of first occurrence.             *)
SummariesOf(docs, sums, ids) ==
    /\ Len(sums) = Cardinality(ids)
    /\ \A id \in ids : \E i \in 1..Len(sums) : SummaryId(sums[i]) = id
    /\ \A i \in 1..Len(sums) :
           /\ SummaryId(sums[i]) \in ids
           /\ LET first == DocMetadata(docs[FirstCarrier(docs, SummaryId(sums[i]))])
              IN sums[i] = PyDict(<<
                     <<K_knowledgeBase_id, SummaryId(sums[i])>>,
                     <<K_title, IF DictHas(first, K_kb_title)
                                THEN DictGet(first, K_kb_title, PyNone) ELSE PyStr(UnknownTitle)>>,
                     <<K_creation_time, IF DictHas(first, K_kb_creation_time)
                                        THEN DictGet(first, K_kb_creation_time, PyNone)
                                        ELSE PyStr(UnknownTime)>> >>)
    /\ \A i, j \in 1..Len(sums) :
           i < j => FirstCarrier(docs, SummaryId(sums[i])) < FirstCarrier(docs, SummaryId(sums[j]))

KbAggregated(r) ==
    Done(r) /\ request[r].op = "list_knowledge_bases" /\ documents[r].kind = "return"

EqPredicate(key, x) == PyDict(<< <<key, PyDict(<< <<K_eq, x>> >>)>> >>)

----------------------------------------------------------------------------
(* Properties *)

(* C1 (as claimed): an upstream response with a non-2xx status makes the   *)
(* operation fail with an HTTPException whose status code is the upstream  *)
(* status and whose message embeds the upstream body: the parsed JSON when *)
(* the body parses, otherwise the raw text.                                *)
C1_UpstreamErrorEmbedsBody ==
    \A r \in Requests :
        (Done(r) /\ response[r].kind = "response" /\ ~Is2xx(response[r])) =>
            /\ result[r].kind = "HTTPException"
            /\ outcome[r] = result[r]
            /\ result[r].status_code = response[r].status_code
            /\ LET parsed == JsonLoads(response[r].text)
               IN response[r].text # <<>> =>
                      result[r].detail.error_detail.v =
                          (IF parsed.ok THEN parsed.val ELSE PyStr(response[r].text))

(* C2 (as claimed): a transport failure without a response makes           *)
(* get_api_response fail with an HTTPException of status 500 whose message *)
(* embeds the text of the transport exception, and with nothing else.      *)
C2_TransportFailureIs500 ==
    \A r \in Requests :
        (Done(r) /\ response[r].kind = "ConnectionError") =>
            /\ result[r].kind = "HTTPException"
            /\ result[r].status_code = 500
            /\ result[r].detail.error_detail.v = PyStr(ConnectionErrorText)
            /\ outcome[r] = result[r]

(* C3 (as claimed): list_knowledge_bases_endpoint returns exactly one      *)
(* summary per distinct knowledgeBase_id observed in the documents'        *)
(* metadata, built from the first document carrying the id, in the order   *)
(* of first occurrence.                                                    *)
C3_OneSummaryPerObservedId ==
    \A r \in Requests :
        KbAggregated(r) =>
            /\ outcome[r].kind = "return"
            /\ SummariesOf(documents[r].value.v, outcome[r].value.v,
                           ObservedKbIds(documents[r].value.v))

(* C3 (amended): list_knowledge_bases_endpoint returns exactly one summary *)
(* per distinct non-empty knowledgeBase_id observed in the documents'      *)
(* metadata, with title and creation_time taken from the first document    *)
(* carrying that id (the defaults when that document lacks them), in the   *)
(* order of first occurrence of the ids.                                   *)
C3_OneSummaryPerNonEmptyId ==
    \A r \in Requests :
        KbAggregated(r) =>
            /\ outcome[r].kind = "return"
            /\ SummariesOf(documents[r].value.v, outcome[r].value.v,
                           {id \in ObservedKbIds(documents[r].value.v) : id.v # <<>>})

(* Two documents carry the same non-empty id with different titles and one *)
(* summary came back. *)
C3_Witness ==
    \E r \in Requests :
        /\ KbAggregated(r) /\ Len(documents[r].value.v) = 2
        /\ LET docs == documents[r].value.v
           IN /\ CarriesKbId(docs[1]) /\ CarriesKbId(docs[2])
              /\ DocKbId(docs[1]) = DocKbId(docs[2]) /\ DocKbId(docs[1]).v # <<>>
              /\ DocMetadata(docs[1]) # DocMetadata(docs[2])
        /\ Len(outcome[r].value.v) = 1

(* C4: a document without knowledgeBase_id in its metadata, or without     *)
(* metadata, contributes no summary: every summary's id is the id of some  *)
(* input document, there are no more summaries than documents carrying an  *)
(* id, and the result is empty when no document carries an id.             *)
C4_NoSummaryWithoutId ==
    \A r \in Requests :
        KbAggregated(r) =>
            LET docs == documents[r].value.v
                sums == outcome[r].value.v
            IN /\ outcome[r].kind = "return"
               /\ \A i \in 1..Len(sums) :
                      \E j \in 1..Len(docs) : CarriesKbId(docs[j]) /\ DocKbId(docs[j]) = SummaryId(sums[i])
               /\ Len(sums) <= Cardinality({j \in 1..Len(docs) : CarriesKbId(docs[j])})
               /\ (\A j \in 1..Len(docs) : ~CarriesKbId(docs[j])) => sums = <<>>

(* A document without metadata and a document without the id were          *)
(* aggregated, and nothing came back.                                      *)
C4_Witness ==
    \E r \in Requests :
        /\ KbAggregated(r) /\ Len(documents[r].value.v) = 2
        /\ ~DictHas(documents[r].value.v[1], K_metadata)
        /\ DictHas(documents[r].value.v[2], K_metadata)
        /\ ~CarriesKbId(documents[r].value.v[2])
        /\ outcome[r] = Return(PyList(<<>>))

(* C5: the filter query parameter of list_documents_endpoint parses to     *)
(* {organization_id: {$eq: org}} when the knowledge-base id is absent or   *)
(* empty, and to {$and: [{organization_id: {$eq: org}},                    *)
(* {knowledgeBase_id: {$eq: kb}}]} otherwise.                              *)
C5_FilterShape ==
    \A r \in Requests :
        (InFlight(r) /\ request[r].op = "list_documents") =>
            LET org == request[r].organization_id
                kb == request[r].knowledgeBase_id
                params == call[r][1].params
            IN /\ call[r][1].verb = "GET"
               /\ IsDict(params) /\ Len(params.v) = 1 /\ params.v[1][1] = K_filter
               /\ LET filter == JsonLoads(params.v[1][2].v)
                  IN /\ filter.ok
                     /\ filter.val =
                            IF kb.t = "none" \/ kb.v = <<>>
                            THEN EqPredicate(K_organization_id, org)
                            ELSE PyDict(<< <<K_and, PyList(<<EqPredicate(K_organization_id, org),
                                                             EqPredicate(K_knowledgeBase_id, kb)>>)>> >>)

(* A listing was asked with the empty string as knowledge-base id. *)
C5_Witness ==
    \E r \in Requests :
        /\ InFlight(r) /\ request[r].op = "list_documents"
        /\ request[r].knowledgeBase_id = PyStr(<<>>)
        /\ Len(call[r]) = 1

(* C6 (as claimed): a 2xx response with an empty body makes                *)
(* get_api_response return the empty mapping, and one with a non-empty     *)
(* body makes it return the body parsed as JSON.                           *)
C6_EmptyOrParsed ==
    \A r \in Requests :
        (Done(r) /\ Is2xx(response[r])) =>
            IF response[r].text = <<>>
            THEN result[r] = Return(PyDict(<<>>))
            ELSE /\ JsonLoads(response[r].text).ok
                 /\ result[r] = Return(JsonLoads(response[r].text).val)

(* C6 (amended): a 2xx response whose body is empty or only whitespace     *)
(* makes get_api_response return the empty mapping without an error, and   *)
(* one whose body is not blank and is valid JSON makes it return the body  *)
(* parsed as JSON.                                                         *)
C6_BlankOrParsed ==
    \A r \in Requests :
        (Done(r) /\ Is2xx(response[r])) =>
            /\ IsBlank(response[r].text) => result[r] = Return(PyDict(<<>>))
            /\ (~IsBlank(response[r].text) /\ JsonLoads(response[r].text).ok) =>
                   result[r] = Return(JsonLoads(response[r].text).val)

(* A 2xx response with a body of whitespace only was turned into the empty *)
(* mapping.                                                                *)
C6_Witness ==
    \E r \in Requests :
        /\ Done(r) /\ Is2xx(response[r])
        /\ response[r].text # <<>> /\ IsBlank(response[r].text)
        /\ result[r] = Return(PyDict(<<>>))

(* C7: the form data of ingest_document_endpoint has mode "fast", a        *)
(* metadata field that parses back to exactly {organization_id,            *)
(* knowledgeBase_id} with the given values, and each of external_id, name  *)
(* and partition exactly when that input is not empty.                     *)
C7_IngestPayload ==
    \A r \in Requests :
        (InFlight(r) /\ request[r].op = "ingest") =>
            LET data == call[r][1].data
                metadata == JsonLoads(DictGet(data, K_metadata, PyStr(<<>>)).v)
                optional == << <<K_external_id, request[r].external_id>>,
                               <<K_name, request[r].name>>,
                               <<K_partition, request[r].partition>> >>
            IN /\ IsDict(data)
               /\ DictGet(data, K_mode, PyNone) = PyStr(V_fast)
               /\ metadata.ok
               /\ metadata.val = PyDict(<< <<K_organization_id, request[r].organization_id>>,
                                           <<K_knowledgeBase_id, request[r].knowledgeBase_id>> >>)
               /\ \A i \in 1..3 :
                      /\ DictHas(data, optional[i][1]) <=> optional[i][2].v # <<>>
                      /\ DictHas(data, optional[i][1]) =>
                             DictGet(data, optional[i][1], PyNone) = optional[i][2]
               /\ \A i \in 1..Len(data.v) :
                      data.v[i][1] \in {K_mode, K_metadata, K_external_id, K_name, K_partition}

(* An ingest whose ids need escaping, with an external_id and without a    *)
(* name, is on its way to the upstream.                                    *)
C7_Witness ==
    \E r \in Requests :
        /\ InFlight(r) /\ request[r].op = "ingest"
        /\ \E i \in 1..Len(request[r].organization_id.v) : request[r].organization_id.v[i] = "\""
        /\ \E i \in 1..Len(request[r].knowledgeBase_id.v) : request[r].knowledgeBase_id.v[i] = "\n"
        /\ request[r].external_id.v # <<>> /\ request[r].name.v = <<>>
        /\ Len(call[r]) = 1

(* C8, state part: a handler has issued one upstream call, and a request   *)
(* whose upstream call failed ended in an error without any result.        *)
C8_Calls ==
    \A r \in Requests :
        /\ Len(call[r]) <= (IF request[r].op = "list_knowledge_bases" THEN 2 ELSE 1)
        /\ InFlight(r) => Len(call[r]) >= 1
        /\ (Done(r) /\ CallFailed(response[r])) =>
               /\ outcome[r].kind \notin {"return", "pending"}
               /\ outcome[r].value = PyNone
               /\ documents[r] = Pending

(* C8, step part: an upstream call is issued only by a handler that        *)
(* starts, never after a reply. *)
C8_NoReissue ==
    \A r \in Requests :
        call'[r] # call[r] => (pc[r] = "idle" /\ Len(call'[r]) = 1) \/ call'[r] = <<>>

(* C8: every request issues a single upstream call (at most two for the    *)
(* knowledge-base listing), a failed call is never issued again, and a     *)
(* failed call ends the operation in the error outcome without a result.   *)
C8_SingleCallNoRetry == [](C8_Calls) /\ [][C8_NoReissue]_vars

(* A request ended in an error after its only upstream call failed. *)
C8_Witness ==
    \E r \in Requests :
        /\ Done(r) /\ CallFailed(response[r]) /\ Len(call[r]) = 1
        /\ outcome[r].kind = "HTTPException"

Locals(r) == <<pc[r], request[r], call[r], response[r], result[r], documents[r], outcome[r]>>

(* C9, state part: requests with the same inputs and the same upstream     *)
(* response have the same outcome, whatever was interleaved with them.     *)
C9_SameOutcome ==
    \A r1, r2 \in Requests :
        (Done(r1) /\ Done(r2) /\ request[r1] = request[r2] /\ response[r1] = response[r2]) =>
            outcome[r1] = outcome[r2]

(* C9, step part: a step writes the locals of one request only. *)
C9_OwnLocalsOnly ==
    \A r1, r2 \in Requests :
        (r1 # r2 /\ Locals(r1)' # Locals(r1)) => Locals(r2)' = Locals(r2)

(* C9: under any interleaving the outcome of a request depends on its own  *)
(* inputs and upstream responses only, and no request writes the state of  *)
(* another.                                                                *)
C9_Independent == [](C9_SameOutcome) /\ [][C9_OwnLocalsOnly]_vars

(* Two requests with the same inputs ended concurrently on the same        *)
(* response.                                                               *)
C9_Witness ==
    \E r1, r2 \in Requests :
        /\ r1 # r2 /\ Done(r1) /\ Done(r2)
        /\ request[r1] = request[r2] /\ response[r1] = response[r2]
        /\ outcome[r1].kind = "return"

(* C10: list_knowledge_bases_endpoint issues the upstream request of       *)
(* list_documents_endpoint called with the same organization id and no     *)
(* knowledge-base id, and aggregates the documents list_documents_endpoint *)
(* would return for the response.                                          *)
C10_SameAsListDocuments ==
    \A r \in Requests :
        (InFlight(r) /\ request[r].op = "list_knowledge_bases") =>
            LET args == ListDocumentsArgs(request[r].organization_id, PyNone)
            IN /\ call[r] = <<HttpRequest(args.url, args.params, args.method, args.payload, args.file)>>
               /\ (Done(r) /\ result[r].kind = "return") =>
                      documents[r] = ListDocumentsDocuments(result[r].value)

(* A knowledge-base listing got a response without a documents field. *)
C10_Witness ==
    \E r \in Requests :
        /\ Done(r) /\ request[r].op = "list_knowledge_bases"
        /\ result[r].kind = "return" /\ Truthy(result[r].value)
        /\ ~DictHas(result[r].value, K_documents)
        /\ documents[r] = Return(PyList(<<>>))

=============================================================================
